---- MODULE Spec2Model ----
(***************************************************************************)
(* Model of the 539 lottery repository: the crawler of data_engine.py      *)
(* (DailyCashCrawler: fetch, normalise, merge, save) and the statistics    *)
(* queries of stats_engine.py (StatsEngine).                               *)
(*                                                                         *)
(* Representation.                                                         *)
(*   - A calendar date is the integer YYYYMMDD; this is order-isomorphic   *)
(*     to the '%Y-%m-%d' text of the ad_date column and to datetime.       *)
(*   - A text value is a sequence of one-character strings.                *)
(*   - A raw JSON field is a record [kind, val]; kind tells a present      *)
(*     value of the expected type from a missing key, a null, and values   *)
(*     of other types.                                                     *)
(*   - The persisted CSV file is a sequence of rows; <<>> is an absent     *)
(*     file (the crawler never writes a file without rows).                *)
(***************************************************************************)
EXTENDS Integers, Sequences, FiniteSets, TLC

VARIABLES
    csv,                \* lottery_data/lottery_data.csv: sequence of rows
    pc,                 \* position of the crawler: "init", "crawl", "done"
    old_csv,            \* history: the file as it was when the run started
    existing_df,        \* crawl_and_save_daily_cash: existing_df
    latest_date_ad,     \* crawl_and_save_daily_cash: latest_date_ad (0 = None)
    current_date,       \* crawl_and_save_daily_cash: current_date (now)
    start_crawl_date,   \* crawl_and_save_daily_cash: start_crawl_date
    current_month_iter, \* crawl_and_save_daily_cash: current_month_iter
    all_new_records,    \* crawl_and_save_daily_cash: all_new_records
    requested,          \* history: the year_month values requested this run
    fetched,            \* history: every record the normaliser returned this run
    month_log,          \* history: per requested month, whether it failed and
                        \* how many of its records were accepted
    raw_data,           \* process_daily_cash_data: its argument
    processed,          \* process_daily_cash_data: its outcome
    df,                 \* StatsEngine.df
    engine,             \* StatsEngine: "none", "ready", "raised"
    result              \* the last statistics query and what it returned

vars == <<csv, pc, old_csv, existing_df, latest_date_ad, current_date,
          start_crawl_date, current_month_iter, all_new_records, requested,
          fetched, month_log, raw_data, processed, df, engine, result>>

crawlVars == <<csv, pc, old_csv, existing_df, latest_date_ad, current_date,
               start_crawl_date, current_month_iter, all_new_records,
               requested, fetched, month_log>>
processVars == <<raw_data, processed>>
statsVars == <<df, engine, result>>

----------------------------------------------------------------------------
(* Bounds of the model. *)

\* longest raw batch one month's response holds
MaxBatch == 1
\* most records the normaliser returns over one run
MaxFetched == 2
\* longest raw_data handed to the normaliser on its own
MaxRaw == 3
\* most rows of a table handed to the statistics engine
MaxDraws == 2

----------------------------------------------------------------------------
(* Helpers on sequences and integers. *)

Range(s) == {s[i] : i \in 1..Len(s)}

Max2(a, b) == IF a >= b THEN a ELSE b

RECURSIVE SeqsUpTo(_, _)
SeqsUpTo(S, n) ==
    IF n = 0 THEN {<<>>}
    ELSE LET shorter == SeqsUpTo(S, n - 1)
         IN  shorter \cup {Append(s, x) : s \in {t \in shorter : Len(t) = n - 1}, x \in S}

\* sorted(list) on integers
RECURSIVE InsertSorted(_, _)
InsertSorted(s, x) ==
    IF s = <<>> THEN <<x>>
    ELSE IF x < Head(s) THEN <<x>> \o s
    ELSE <<Head(s)>> \o InsertSorted(Tail(s), x)

RECURSIVE sorted(_)
sorted(s) == IF s = <<>> THEN <<>> ELSE InsertSorted(sorted(SubSeq(s, 1, Len(s) - 1)), s[Len(s)])

\* list[:n]
Slice(s, n) == SubSeq(s, 1, IF Len(s) < n THEN Len(s) ELSE n)

----------------------------------------------------------------------------
(* Text: str(int), f"{n:02d}", ','.join and their inverses. *)

DigitChars == <<"0", "1", "2", "3", "4", "5", "6", "7", "8", "9">>

RECURSIVE Digits(_)
Digits(n) == IF n < 10 THEN <<DigitChars[n + 1]>>
             ELSE Digits(n \div 10) \o <<DigitChars[(n % 10) + 1]>>

\* str(n) for an integer n
Str(n) == IF n < 0 THEN <<"-">> \o Digits(-n) ELSE Digits(n)

\* f"{n:02d}": sign included in the width, zero padded to two characters
Format02d(n) == IF Len(Str(n)) >= 2 THEN Str(n) ELSE <<"0">> \o Str(n)

\* ','.join(parts)
RECURSIVE Join(_)
Join(parts) ==
    IF parts = <<>> THEN <<>>
    ELSE IF Len(parts) = 1 THEN parts[1]
    ELSE parts[1] \o <<",">> \o Join(Tail(parts))

\* text.split(',')
RECURSIVE Split(_)
Split(text) ==
    IF \A i \in 1..Len(text) : text[i] # "," THEN <<text>>
    ELSE LET k == CHOOSE i \in 1..Len(text) :
                      text[i] = "," /\ \A j \in 1..(i - 1) : text[j] # ","
         IN  <<SubSeq(text, 1, k - 1)>> \o Split(SubSeq(text, k + 1, Len(text)))

DigitValue(c) == (CHOOSE i \in 1..10 : DigitChars[i] = c) - 1

RECURSIVE NatOf(_)
NatOf(text) == IF text = <<>> THEN 0
               ELSE 10 * NatOf(SubSeq(text, 1, Len(text) - 1)) + DigitValue(text[Len(text)])

\* int(text) on the text of a decimal integer
ParseInt(text) == IF text # <<>> /\ text[1] = "-" THEN -NatOf(Tail(text)) ELSE NatOf(text)

----------------------------------------------------------------------------
(* Calendar dates as YYYYMMDD. *)

Year(d) == d \div 10000
Month(d) == (d \div 100) % 100
Day(d) == d % 100
MakeDate(y, m, dd) == y * 10000 + m * 100 + dd

DaysInMonth(y, m) ==
    IF m \in {4, 6, 9, 11} THEN 30
    ELSE IF m = 2 THEN (IF y % 4 = 0 /\ (y % 100 # 0 \/ y % 400 = 0) THEN 29 ELSE 28)
    ELSE 31

\* what datetime.fromisoformat accepts
ValidDate(d) == /\ Year(d) \in 1..9999
                /\ Month(d) \in 1..12
                /\ Day(d) \in 1..DaysInMonth(Year(d), Month(d))

----------------------------------------------------------------------------
(* Record Normalizer: DailyCashCrawler.process_daily_cash_data. *)

Field(kind, val) == [kind |-> kind, val |-> val]

\* the exceptions the except clause of the item loop names
CaughtExceptions == {"KeyError", "ValueError", "IndexError"}

\* The first exception the body of the try raises for one item ("none" when
\* it raises nothing), in the order the body evaluates:
\*   item['lotteryDate'].replace(...)   KeyError, AttributeError on a non-string
\*   datetime.fromisoformat(...)        ValueError
\*   item['period']                     KeyError
\*   item['drawNumberAppear']           KeyError
\*   draw_numbers[:5]                   TypeError on None (a short list slices)
\*   f"{n:02d}"                         ValueError on a str
ItemException(item) ==
    IF item.lotteryDate.kind = "missing" THEN "KeyError"
    ELSE IF item.lotteryDate.kind = "null" THEN "AttributeError"
    ELSE IF item.lotteryDate.kind = "text" THEN "ValueError"
    ELSE IF ~ValidDate(item.lotteryDate.val) THEN "ValueError"
    ELSE IF item.period.kind = "missing" THEN "KeyError"
    ELSE IF item.drawNumberAppear.kind = "missing" THEN "KeyError"
    ELSE IF item.drawNumberAppear.kind = "null" THEN "TypeError"
    ELSE IF item.drawNumberAppear.kind = "strlist" THEN "ValueError"
    ELSE "none"

\* numbers = sorted(draw_numbers[:5])
FirstFiveSorted(draw_numbers) == sorted(Slice(draw_numbers, 5))

\* ','.join(f"{n:02d}" for n in numbers)
FormatNumbers(numbers) == Join([i \in 1..Len(numbers) |-> Format02d(numbers[i])])

\* the dict appended to processed_list
NormalizedRecord(item) ==
    LET lottery_date == item.lotteryDate.val
        tw_year == Year(lottery_date) - 1911
    IN  [draw |-> Str(item.period.val),
         date |-> MakeDate(tw_year, Month(lottery_date), Day(lottery_date)),
         ad_date |-> lottery_date,
         numbers |-> FormatNumbers(FirstFiveSorted(item.drawNumberAppear.val)),
         price |-> 8000000,
         lottery_type |-> "daily_cash"]

\* The loop over raw_data: a caught exception skips the item, any other
\* exception leaves the function and nothing is returned.
RECURSIVE ProcessLoop(_, _)
ProcessLoop(raw, processed_list) ==
    IF raw = <<>> THEN [raised |-> "none", list |-> processed_list]
    ELSE LET exc == ItemException(Head(raw))
         IN  IF exc = "none"
                 THEN ProcessLoop(Tail(raw), Append(processed_list, NormalizedRecord(Head(raw))))
             ELSE IF exc \in CaughtExceptions
                 THEN ProcessLoop(Tail(raw), processed_list)
             ELSE [raised |-> exc, list |-> <<>>]

process_daily_cash_data(raw) == ProcessLoop(raw, <<>>)

Pending == [raised |-> "pending", list |-> <<>>]

(* Raw items handed to the normaliser on its own. *)

GoodDate == Field("iso", 20141201)
GoodPeriod == Field("int", 103000001)
GoodNumbers == Field("list", <<5, 4, 3, 2, 1>>)

RawItem(d, p, n) == [lotteryDate |-> d, period |-> p, drawNumberAppear |-> n]

RawNumberLists ==
    {<<5, 4, 3, 2, 1>>,          \* five distinct numbers, unsorted
     <<10, 11, 20, 21, 39, 7>>,  \* more than five
     <<3, 3>>,                   \* fewer than five, repeated
     <<0, 40, 1, 2, 3>>,         \* outside 1..39
     <<7>>,
     <<>>}

RawItems ==
    {RawItem(GoodDate, GoodPeriod, Field("list", n)) : n \in RawNumberLists}
    \cup {RawItem(Field(k, 0), GoodPeriod, GoodNumbers) : k \in {"missing", "null", "text"}}
    \cup {RawItem(Field("iso", 20141305), GoodPeriod, GoodNumbers),
          RawItem(Field("iso", 20150229), GoodPeriod, GoodNumbers),
          RawItem(GoodDate, Field("missing", 0), GoodNumbers)}
    \cup {RawItem(GoodDate, GoodPeriod, Field(k, <<>>)) : k \in {"missing", "null", "strlist"}}

ProcessDailyCashData ==
    /\ processed = Pending
    /\ processed' = process_daily_cash_data(raw_data)
    /\ UNCHANGED <<raw_data, crawlVars, statsVars>>

----------------------------------------------------------------------------
(* Fetcher: DailyCashCrawler.crawl_daily_cash. *)

\* The content object of a response: "empty" is {}, "other" is an object
\* without the key daily539Res, "null" holds daily539Res: null, "list"
\* holds the list of raw items.
Content(kind, items) == [kind |-> kind, daily539Res |-> items]
EmptyContent == Content("empty", <<>>)

\* What the request does: "transport" and "http" raise a RequestException,
\* "json" a JSONDecodeError, "rtcode" answers rtCode # 0, "ok" answers
\* rtCode = 0 with a content object.
Response(kind, content) == [kind |-> kind, content |-> content]

crawl_daily_cash(response) ==
    IF response.kind = "ok" THEN response.content ELSE EmptyContent

----------------------------------------------------------------------------
(* Merge Store: get_existing_data_df, get_latest_ad_date and the merge of  *)
(* crawl_and_save_daily_cash.                                              *)

\* read_csv succeeds (read_ok) or raises, which the function answers with
\* an empty frame, as it does for an absent file
get_existing_data_df(file, read_ok) ==
    IF file # <<>> /\ read_ok THEN file ELSE <<>>

RECURSIVE MaxAdDate(_)
MaxAdDate(rows) ==
    IF rows = <<>> THEN 0 ELSE Max2(Head(rows).ad_date, MaxAdDate(Tail(rows)))

\* df['ad_date'].max(), None (0) for an empty frame
get_latest_ad_date(frame) == IF frame # <<>> THEN MaxAdDate(frame) ELSE 0

\* latest_date_ad.replace(day=1)
FirstOfMonth(d) == MakeDate(Year(d), Month(d), 1)

\* the start of the crawl: lines 115-122
StartCrawlDate(latest, start_year, start_month) ==
    IF latest # 0 THEN FirstOfMonth(latest) ELSE MakeDate(start_year, start_month, 1)

\* f"{current_month_iter.year}-{current_month_iter.month:02d}" as YYYYMM
YearMonth(d) == Year(d) * 100 + Month(d)

\* the year advanced without the month set back to January
NextMonthKeepsDecember(d) ==
    IF Month(d) = 12 THEN MakeDate(Year(d) + 1, Month(d), Day(d))
    ELSE MakeDate(Year(d), Month(d) + 1, Day(d))

\* "Move to the next month": lines 152-155
NextMonth(d) ==
    IF Month(d) = 12 THEN MakeDate(Year(d) + 1, 1, Day(d))
    ELSE MakeDate(Year(d), Month(d) + 1, Day(d))

\* the comparison of the dates reversed
IsOlder(record, latest) == latest = 0 \/ record.ad_date < latest

\* the record of the latest date taken again
IsNewerOrSame(record, latest) == latest = 0 \/ record.ad_date >= latest

\* the condition of line 139
IsNewer(record, latest) == latest = 0 \/ record.ad_date > latest

\* the for loop of lines 136-141 over one processed_list
RECURSIVE AppendNewer(_, _, _)
AppendNewer(new_records, processed_list, latest) ==
    IF processed_list = <<>> THEN new_records
    ELSE AppendNewer(IF IsNewer(Head(processed_list), latest)
                         THEN Append(new_records, Head(processed_list))
                         ELSE new_records,
                     Tail(processed_list), latest)

\* drop_duplicates(subset=['draw']): the first row of each draw is kept
RECURSIVE DropDuplicatesFrom(_, _)
DropDuplicatesFrom(rows, kept) ==
    IF rows = <<>> THEN kept
    ELSE DropDuplicatesFrom(Tail(rows),
                            IF \E i \in 1..Len(kept) : kept[i].draw = Head(rows).draw
                                THEN kept ELSE Append(kept, Head(rows)))

\* the frames concatenated and no duplicate dropped
KeepDuplicates(rows) == rows

drop_duplicates(rows) == DropDuplicatesFrom(rows, <<>>)

IsSortedByAdDate(rows) ==
    \A i \in 1..(Len(rows) - 1) : rows[i].ad_date <= rows[i + 1].ad_date

\* the combined frame saved unsorted
Unsorted(rows) == {rows}

\* sort_values(by='ad_date').reset_index(drop=True): the default kind is
\* quicksort, which is not stable, so rows of one date come out in any order
sort_values(rows) ==
    {t \in {[i \in 1..Len(rows) |-> rows[p[i]]] : p \in Permutations(1..Len(rows))} :
        IsSortedByAdDate(t)}

\* lines 158-167: the frames combined_df can be
Combined(existing, new_records) == sort_values(drop_duplicates(existing \o new_records))

\* the file rewritten by every run
AlwaysWrites(new_records) == TRUE

\* line 157: whether the run writes the file
WritesFile(new_records) == new_records # <<>>

\* merge(existing, incoming): the tables a run that finds the frame existing
\* and is handed the records incoming can leave
Merge(existing, incoming) ==
    LET new_records == AppendNewer(<<>>, incoming, get_latest_ad_date(existing))
    IN  IF WritesFile(new_records) THEN Combined(existing, new_records) ELSE {existing}

----------------------------------------------------------------------------
(* One run of DailyCashCrawler.crawl_and_save_daily_cash, as its steps: the *)
(* load (lines 110-127), one step per iteration of the month loop (lines    *)
(* 128-155) and the merge and save (lines 157-177).                         *)

\* period values, dates and raw items of the crawled months
CrawlPeriods == {103000001, 103000002}
CrawlDates == {20141130, 20141201, 20150105}

CrawlItems ==
    {RawItem(Field("iso", d), Field("int", q), Field("list", <<10, 11, 20, 21, 39, 7>>)) :
        d \in CrawlDates, q \in CrawlPeriods}
    \cup {RawItem(Field("text", 0), GoodPeriod, GoodNumbers),
          RawItem(GoodDate, GoodPeriod, Field("null", <<>>))}

Responses ==
    {Response(k, EmptyContent) : k \in {"transport", "http", "json", "rtcode"}}
    \cup {Response("ok", Content(k, <<>>)) : k \in {"empty", "other", "null"}}
    \cup {Response("ok", Content("list", b)) : b \in SeqsUpTo(CrawlItems, MaxBatch)}

\* datetime.now() at the runs, and the (start_year, start_month) arguments
Nows == {20141215, 20150120}
StartArguments == {<<2014, 11>>, <<2014, 12>>}

\* The body of the try of lines 131-146 for one response: the outcome of the
\* normaliser, Pending when it is not called. A TypeError on
\* daily539Res: null, or an exception leaving the normaliser, ends the try
\* in the except clause of line 148.
MonthProcessed(response) ==
    LET raw_content == crawl_daily_cash(response)
    IN  IF raw_content.kind \in {"empty", "other"} THEN Pending
        ELSE IF raw_content.kind = "null" THEN [raised |-> "TypeError", list |-> <<>>]
        ELSE process_daily_cash_data(raw_content.daily539Res)

MonthFailed(response) ==
    response.kind # "ok" \/ MonthProcessed(response).raised \notin {"none", "pending"}

\* what one iteration of the loop is left with: whether the month failed and
\* the processed_list the for loop of line 136 goes through
MonthOutcome(response) ==
    [failed |-> MonthFailed(response), list |-> MonthProcessed(response).list]

MonthOutcomes == {MonthOutcome(response) : response \in Responses}

CrawlInit ==
    /\ csv = <<>>
    /\ pc = "init"
    /\ old_csv = <<>>
    /\ existing_df = <<>>
    /\ latest_date_ad = 0
    /\ current_date = 0
    /\ start_crawl_date = 0
    /\ current_month_iter = 0
    /\ all_new_records = <<>>
    /\ requested = <<>>
    /\ fetched = <<>>
    /\ month_log = <<>>

ProcessInit == raw_data = <<>> /\ processed = Pending

NoResult == [query |-> "none", num_draws |-> [given |-> FALSE, n |-> 0], value |-> <<>>]

StatsInit == df = <<>> /\ engine = "none" /\ result = NoResult

\* lines 106-127
StartRun ==
    /\ pc \in {"init", "done"}
    /\ \E now \in Nows, read_ok \in BOOLEAN, start \in StartArguments :
        LET frame == get_existing_data_df(csv, read_ok)
            latest == get_latest_ad_date(frame)
        IN  /\ now >= current_date
            /\ (csv = <<>> => read_ok)
            /\ existing_df' = frame
            /\ latest_date_ad' = latest
            /\ current_date' = now
            /\ start_crawl_date' = StartCrawlDate(latest, start[1], start[2])
            /\ current_month_iter' = StartCrawlDate(latest, start[1], start[2])
    /\ old_csv' = csv
    /\ all_new_records' = <<>>
    /\ requested' = <<>>
    /\ fetched' = <<>>
    /\ month_log' = <<>>
    /\ pc' = "crawl"
    /\ UNCHANGED <<csv, processVars, statsVars>>

\* one iteration of the while loop of lines 128-155
CrawlMonth ==
    /\ pc = "crawl"
    /\ current_month_iter <= current_date
    /\ \E outcome \in MonthOutcomes :
        /\ Len(fetched) + Len(outcome.list) <= MaxFetched
        /\ requested' = Append(requested, YearMonth(current_month_iter))
        /\ fetched' = fetched \o outcome.list
        /\ all_new_records' = AppendNewer(all_new_records, outcome.list, latest_date_ad)
        /\ month_log' = Append(month_log,
               [failed |-> outcome.failed,
                accepted |-> Len(AppendNewer(<<>>, outcome.list, latest_date_ad))])
    /\ current_month_iter' = NextMonth(current_month_iter)
    /\ UNCHANGED <<csv, pc, old_csv, existing_df, latest_date_ad, current_date,
                   start_crawl_date, processVars, statsVars>>

\* lines 157-177, once the while loop has ended
MergeAndSave ==
    /\ pc = "crawl"
    /\ ~(current_month_iter <= current_date)
    /\ IF WritesFile(all_new_records)
           THEN csv' \in Combined(existing_df, all_new_records)
           ELSE csv' = csv
    /\ pc' = "done"
    /\ UNCHANGED <<old_csv, existing_df, latest_date_ad, current_date, start_crawl_date,
                   current_month_iter, all_new_records, requested, fetched,
                   month_log, processVars, statsVars>>

Init == CrawlInit /\ ProcessInit /\ StatsInit

Next == StartRun \/ CrawlMonth \/ MergeAndSave

Spec == Init /\ [][Next]_vars

\* the loop and the save run to completion once the run has started
FairSpec == Spec /\ WF_vars(CrawlMonth \/ MergeAndSave)

(* The normaliser on its own. *)

InitProcess ==
    /\ CrawlInit /\ StatsInit
    /\ raw_data \in SeqsUpTo(RawItems, MaxRaw)
    /\ processed = Pending

NextProcess == ProcessDailyCashData

SpecProcess == InitProcess /\ [][NextProcess]_vars

----------------------------------------------------------------------------
(* Statistics Engine: StatsEngine of stats_engine.py. *)

\* [int(n) for n in x.split(',')]
ParseNumbers(text) ==
    LET parts == Split(text) IN [i \in 1..Len(parts) |-> ParseInt(parts[i])]

HasComma(text) == \E i \in 1..Len(text) : text[i] = ","

\* read_csv gives an empty cell as NaN, and a numbers column in which no
\* cell holds a comma as a column of numbers: x.split then raises
\* AttributeError, which _load_data does not catch
LoadRaises(file) ==
    \/ \E i \in 1..Len(file) : file[i].numbers = <<>>
    \/ \A i \in 1..Len(file) : ~HasComma(file[i].numbers)

WithNumbersList(file) ==
    [i \in 1..Len(file) |->
        [draw |-> file[i].draw, ad_date |-> file[i].ad_date,
         numbers |-> file[i].numbers, numbers_list |-> ParseNumbers(file[i].numbers)]]

\* the first n rows in place of the last
head(frame, n) ==
    IF n >= 0 THEN SubSeq(frame, 1, IF n < Len(frame) THEN n ELSE Len(frame))
    ELSE SubSeq(frame, 1, Len(frame) + n)

\* df.tail(n): the last n rows, none for n = 0, all but the first -n for n < 0
tail(frame, n) ==
    IF n >= 0 THEN SubSeq(frame, Max2(1, Len(frame) - n + 1), Len(frame))
    ELSE SubSeq(frame, -n + 1, Len(frame))

get_latest_n_draws(frame, n) == IF frame = <<>> THEN <<>> ELSE tail(frame, n)

\* target_df of every query: lines 48-50
TargetDf(frame, num_draws) ==
    IF num_draws.given THEN get_latest_n_draws(frame, num_draws.n) ELSE frame

\* [num for sublist in target_df['numbers_list'] for num in sublist]
RECURSIVE Flatten(_)
Flatten(target) ==
    IF target = <<>> THEN <<>> ELSE Head(target).numbers_list \o Flatten(Tail(target))

\* pd.Series(values).value_counts(): a mapping on the values that occur
ValueCounts(values) ==
    [v \in Range(values) |-> Cardinality({i \in 1..Len(values) : values[i] = v})]

\* the counts returned without the fixed domain
SparseCounts(series, other) == other

\* Series.update: the entries of the receiver whose label the other holds
SeriesUpdate(series, other) ==
    [k \in DOMAIN series |-> IF k \in DOMAIN other THEN other[k] ELSE series[k]]

EmptyMapping == <<>>

calculate_frequency(frame, num_draws) ==
    LET target_df == TargetDf(frame, num_draws)
    IN  IF target_df = <<>> THEN EmptyMapping
        ELSE SeriesUpdate([k \in 1..39 |-> 0], ValueCounts(Flatten(target_df)))

LastDigits(values) == [i \in 1..Len(values) |-> values[i] % 10]

analyze_last_digits(frame, num_draws) ==
    LET target_df == TargetDf(frame, num_draws)
    IN  IF target_df = <<>> THEN EmptyMapping
        ELSE SeriesUpdate([k \in 0..9 |-> 0], ValueCounts(LastDigits(Flatten(target_df))))

\* lines 156-166 for one row: the patterns of the adjacent pairs of the
\* sorted numbers that differ by 1, in the order the scan meets them
RowPatterns(numbers_list) ==
    LET numbers == sorted(numbers_list)
        Pattern(i) == Format02d(numbers[i]) \o <<",">> \o Format02d(numbers[i + 1])
        F[i \in 0..Len(numbers)] ==
            IF i = 0 THEN <<>>
            ELSE IF i < Len(numbers) /\ numbers[i + 1] - numbers[i] = 1
                 THEN Append(F[i - 1], Pattern(i))
                 ELSE F[i - 1]
    IN  F[Len(numbers)]

RECURSIVE AllPatterns(_)
AllPatterns(target) ==
    IF target = <<>> THEN <<>>
    ELSE RowPatterns(Head(target).numbers_list) \o AllPatterns(Tail(target))

\* every pair of a row added to the tally of draws
PairTally(numbers_list) == Len(RowPatterns(numbers_list))

\* has_consecutive of a row, as added to total_draws_with_consecutive
DrawTally(numbers_list) == IF RowPatterns(numbers_list) # <<>> THEN 1 ELSE 0

RECURSIVE TotalDrawsWithConsecutive(_)
TotalDrawsWithConsecutive(target) ==
    IF target = <<>> THEN 0
    ELSE DrawTally(Head(target).numbers_list) + TotalDrawsWithConsecutive(Tail(target))

\* (total / len(target_df)) * 100 if len(target_df) > 0 else 0, as the
\* rational number num / den
Percentage(total, size) ==
    IF size > 0 THEN [num |-> total * 100, den |-> size] ELSE [num |-> 0, den |-> 1]

analyze_consecutive_numbers(frame, num_draws) ==
    LET target_df == TargetDf(frame, num_draws)
        total == TotalDrawsWithConsecutive(target_df)
    IN  IF target_df = <<>>
        THEN [consecutive_patterns |-> EmptyMapping, total_draws_with_consecutive |-> 0]
        ELSE [consecutive_patterns |-> ValueCounts(AllPatterns(target_df)),
              total_draws_with_consecutive |-> total,
              percentage_with_consecutive |-> Percentage(total, Len(target_df))]

(* Numbers of a result: None, NaN, the rational num / den, or the square *)
(* root of the rational num / den.                                        *)
None == [kind |-> "None", num |-> 0, den |-> 1]
NaN == [kind |-> "nan", num |-> 0, den |-> 1]
Number(num, den) == [kind |-> "number", num |-> num, den |-> den]
SquareRoot(num, den) == [kind |-> "sqrt", num |-> num, den |-> den]

RECURSIVE SumOf(_)
SumOf(values) == IF values = <<>> THEN 0 ELSE Head(values) + SumOf(Tail(values))

\* target_df['numbers_list'].apply(sum)
RowSums(target) == [i \in 1..Len(target) |-> SumOf(target[i].numbers_list)]

\* Series.mean()
Mean(sums) == IF sums = <<>> THEN NaN ELSE Number(SumOf(sums), Len(sums))

\* Series.median(): the middle of the sorted values, the mean of the two
\* middle ones for an even count
Median(sums) ==
    LET ordered == sorted(sums)
        n == Len(sums)
    IN  IF n = 0 THEN NaN
        ELSE IF n % 2 = 1 THEN Number(ordered[(n + 1) \div 2], 1)
        ELSE Number(ordered[n \div 2] + ordered[n \div 2 + 1], 2)

\* Series.std(): the sample standard deviation (ddof = 1), NaN below two
\* values; the variance is (n * sum(x^2) - sum(x)^2) / (n * (n - 1))
StdDev(sums) ==
    LET n == Len(sums)
        squares == [i \in 1..n |-> sums[i] * sums[i]]
    IN  IF n < 2 THEN NaN
        ELSE SquareRoot(n * SumOf(squares) - SumOf(sums) * SumOf(sums), n * (n - 1))

\* Series.min() and Series.max()
MinOf(sums) ==
    IF sums = <<>> THEN NaN
    ELSE Number(CHOOSE v \in Range(sums) : \A w \in Range(sums) : v <= w, 1)

MaxOf(sums) ==
    IF sums = <<>> THEN NaN
    ELSE Number(CHOOSE v \in Range(sums) : \A w \in Range(sums) : v >= w, 1)

\* lines 84-92
SumStatistics(sums) ==
    [sums |-> sums, mean_sum |-> Mean(sums), median_sum |-> Median(sums),
     std_dev_sum |-> StdDev(sums), min_sum |-> MinOf(sums), max_sum |-> MaxOf(sums)]

\* the statistics computed without the test of an empty window
SumAnalysisOfAnyWindow(frame, num_draws) == SumStatistics(RowSums(TargetDf(frame, num_draws)))

calculate_sum_analysis(frame, num_draws) ==
    LET target_df == TargetDf(frame, num_draws)
    IN  IF target_df = <<>>
        THEN [sums |-> <<>>, mean_sum |-> None, median_sum |-> None,
              std_dev_sum |-> None, min_sum |-> None, max_sum |-> None]
        ELSE SumStatistics(RowSums(target_df))

\* the characters of the count keys, named by their code points
Odd == "U+5947"
Even == "U+5076"
Big == "U+5927"
Small == "U+5C0F"

\* sum(1 for n in numbers if n % 2 != 0) and 5 minus it
OddCount(numbers) == Cardinality({i \in 1..Len(numbers) : numbers[i] % 2 # 0})
EvenCount(numbers) == 5 - OddCount(numbers)

\* sum(1 for n in numbers if 1 <= n <= 19) and 5 minus it
SmallCount(numbers) ==
    Cardinality({i \in 1..Len(numbers) : 1 <= numbers[i] /\ numbers[i] <= 19})
BigCount(numbers) == 5 - SmallCount(numbers)

\* f"{a}:{b}" and f"{a}<x>{b}<y>"
RatioText(a, b) == Str(a) \o <<":">> \o Str(b)
CountKey(a, x, b, y) == Str(a) \o <<x>> \o Str(b) \o <<y>>

calculate_odd_even_big_small_ratios(frame, num_draws) ==
    LET target_df == TargetDf(frame, num_draws)
        numbers(i) == target_df[i].numbers_list
        rows == 1..Len(target_df)
    IN  IF target_df = <<>>
        THEN [odd_even_ratios |-> <<>>, big_small_ratios |-> <<>>,
              odd_even_counts |-> EmptyMapping, big_small_counts |-> EmptyMapping]
        ELSE [odd_even_ratios |->
                  [i \in rows |-> RatioText(OddCount(numbers(i)), EvenCount(numbers(i)))],
              big_small_ratios |->
                  [i \in rows |-> RatioText(BigCount(numbers(i)), SmallCount(numbers(i)))],
              odd_even_distribution |->
                  ValueCounts([i \in rows |->
                      CountKey(OddCount(numbers(i)), Odd, EvenCount(numbers(i)), Even)]),
              big_small_distribution |->
                  ValueCounts([i \in rows |->
                      CountKey(BigCount(numbers(i)), Big, SmallCount(numbers(i)), Small)])]

(* The tables the engine is constructed on: rows the normaliser produces, *)
(* in the date order the crawler saves, with distinct draws, numbered in  *)
(* the order of the rows as the periods of the source are.                *)

StatsPeriods == {103000001, 103000002, 103000003}
StatsDates == {20141201, 20141202}

StatsRows ==
    {NormalizedRecord(RawItem(Field("iso", d), Field("int", q), Field("list", n))) :
        d \in StatsDates, q \in StatsPeriods, n \in RawNumberLists}

StatsTables ==
    {t \in SeqsUpTo(StatsRows, MaxDraws) :
        /\ IsSortedByAdDate(t)
        /\ \A i, j \in 1..Len(t) : i < j => ParseInt(t[i].draw) < ParseInt(t[j].draw)}

\* the num_draws argument: absent (None) or an integer
NumDrawsArguments ==
    {[given |-> FALSE, n |-> 0]} \cup {[given |-> TRUE, n |-> k] : k \in (-1)..(MaxDraws + 1)}

\* StatsEngine.__init__ and _load_data
StatsEngineInit ==
    /\ engine = "none"
    /\ IF csv = <<>> THEN df' = <<>> /\ engine' = "ready"
       ELSE IF LoadRaises(csv) THEN df' = df /\ engine' = "raised"
       ELSE df' \in sort_values(WithNumbersList(csv)) /\ engine' = "ready"
    /\ UNCHANGED <<result, crawlVars, processVars>>

CalculateFrequency ==
    /\ engine = "ready"
    /\ \E num_draws \in NumDrawsArguments :
        result' = [query |-> "calculate_frequency", num_draws |-> num_draws,
                   value |-> calculate_frequency(df, num_draws)]
    /\ UNCHANGED <<df, engine, crawlVars, processVars>>

AnalyzeLastDigits ==
    /\ engine = "ready"
    /\ \E num_draws \in NumDrawsArguments :
        result' = [query |-> "analyze_last_digits", num_draws |-> num_draws,
                   value |-> analyze_last_digits(df, num_draws)]
    /\ UNCHANGED <<df, engine, crawlVars, processVars>>

AnalyzeConsecutiveNumbers ==
    /\ engine = "ready"
    /\ \E num_draws \in NumDrawsArguments :
        result' = [query |-> "analyze_consecutive_numbers", num_draws |-> num_draws,
                   value |-> analyze_consecutive_numbers(df, num_draws)]
    /\ UNCHANGED <<df, engine, crawlVars, processVars>>

CalculateSumAnalysis ==
    /\ engine = "ready"
    /\ \E num_draws \in NumDrawsArguments :
        result' = [query |-> "calculate_sum_analysis", num_draws |-> num_draws,
                   value |-> calculate_sum_analysis(df, num_draws)]
    /\ UNCHANGED <<df, engine, crawlVars, processVars>>

CalculateOddEvenBigSmallRatios ==
    /\ engine = "ready"
    /\ \E num_draws \in NumDrawsArguments :
        result' = [query |-> "calculate_odd_even_big_small_ratios", num_draws |-> num_draws,
                   value |-> calculate_odd_even_big_small_ratios(df, num_draws)]
    /\ UNCHANGED <<df, engine, crawlVars, processVars>>

\* the integers passed as n to get_latest_n_draws
WindowSizes == (-1)..(MaxDraws + 1)

GetLatestNDraws ==
    /\ engine = "ready"
    /\ \E n \in WindowSizes :
        result' = [query |-> "get_latest_n_draws", num_draws |-> [given |-> TRUE, n |-> n],
                   value |-> get_latest_n_draws(df, n)]
    /\ UNCHANGED <<df, engine, crawlVars, processVars>>

InitStats ==
    /\ csv \in StatsTables
    /\ pc = "done"
    /\ old_csv = <<>>
    /\ existing_df = <<>>
    /\ latest_date_ad = 0
    /\ current_date = 0
    /\ start_crawl_date = 0
    /\ current_month_iter = 0
    /\ all_new_records = <<>>
    /\ requested = <<>>
    /\ fetched = <<>>
    /\ month_log = <<>>
    /\ ProcessInit /\ StatsInit

NextStats ==
    \/ StatsEngineInit
    \/ CalculateFrequency
    \/ AnalyzeLastDigits
    \/ GetLatestNDraws
    \/ AnalyzeConsecutiveNumbers
    \/ CalculateSumAnalysis
    \/ CalculateOddEvenBigSmallRatios

SpecStats == InitStats /\ [][NextStats]_vars

----------------------------------------------------------------------------
(* Properties of the crawl runs, checked under Spec and FairSpec. *)

HasDraw(rows, draw) == \E i \in 1..Len(rows) : rows[i].draw = draw

DistinctDraws(rows) == \A i, j \in 1..Len(rows) : rows[i].draw = rows[j].draw => i = j

\* C1: no two rows of the persisted table have the same draw, after any
\* sequence of runs from an absent file, whatever the months answer.
C1_UniqueDraws == DistinctDraws(csv)

\* a run that wrote the file although a fetched draw was already in the
\* loaded table and a draw was fetched twice
C1_Witness ==
    /\ pc = "done"
    /\ WritesFile(all_new_records)
    /\ \E i \in 1..Len(all_new_records) : HasDraw(existing_df, all_new_records[i].draw)
    /\ ~DistinctDraws(all_new_records)

\* C2: the persisted table is in ascending order of ad_date: each row's date
\* is at most the date of the row after it.
C2_SortedByAdDate ==
    \A i \in 1..Len(csv) : \A j \in 1..Len(csv) : i < j => csv[i].ad_date <= csv[j].ad_date

\* a run that wrote the file from new records that arrived out of date order
C2_Witness ==
    /\ pc = "done"
    /\ WritesFile(all_new_records)
    /\ Len(csv) >= 2
    /\ \E i \in 1..Len(all_new_records) : \E j \in 1..Len(all_new_records) :
           i < j /\ all_new_records[i].ad_date > all_new_records[j].ad_date

\* C3: merge is idempotent: for the loaded table T and the records B fetched
\* by a run, merging B into T and merging B again into the result leaves
\* exactly the table the first merge left.
C3_MergeIdempotent ==
    pc = "done" =>
        \A t \in Merge(existing_df, fetched) : Merge(t, fetched) = {t}

\* the table a run leaves is a merge of the loaded table and the fetched records
MergeIsWhatTheRunDoes ==
    pc = "done" /\ WritesFile(all_new_records) => csv \in Merge(existing_df, fetched)

\* the incoming records dated after every row of the loaded table
NewerFetched ==
    SelectSeq(fetched, LAMBDA r : \A i \in 1..Len(existing_df) : r.ad_date > existing_df[i].ad_date)

\* their draws differ from each other and from the draws of the loaded table
FreshDraws ==
    /\ DistinctDraws(NewerFetched)
    /\ \A i \in 1..Len(NewerFetched) : ~HasDraw(existing_df, NewerFetched[i].draw)

LatestOfBoth == Max2(get_latest_ad_date(existing_df), get_latest_ad_date(fetched))

\* C4 as stated: the latest date of merge(A, B) is the later of the latest
\* date of A and the latest date of B (none, 0, for an empty table).
C4_LatestIsMax ==
    pc = "done" =>
        \A t \in Merge(existing_df, fetched) : get_latest_ad_date(t) = LatestOfBoth

\* C4 as amended: the latest date of merge(A, B) is at least the latest date
\* of A and at most the later of the two latest dates, and it is the later
\* of the two when the draws of the incoming records newer than A differ
\* from each other and from the draws of A.
C4_LatestBounds ==
    pc = "done" =>
        \A t \in Merge(existing_df, fetched) :
            /\ get_latest_ad_date(existing_df) <= get_latest_ad_date(t)
            /\ get_latest_ad_date(t) <= LatestOfBoth
            /\ FreshDraws => get_latest_ad_date(t) = LatestOfBoth

\* a run that merged newer records of fresh draws into a loaded table
C4_Witness ==
    /\ pc = "done"
    /\ existing_df # <<>>
    /\ NewerFetched # <<>>
    /\ FreshDraws
    /\ get_latest_ad_date(csv) > get_latest_ad_date(existing_df)

\* the months from that of first through that of last, as YYYYMM
MonthIndex(d) == Year(d) * 12 + Month(d) - 1
ExpectedMonths(first, last) ==
    [i \in 1..(MonthIndex(last) - MonthIndex(first) + 1) |->
        LET m == MonthIndex(first) + i - 1 IN (m \div 12) * 100 + (m % 12) + 1]

\* the fetched records the filter of line 139 lets through
AcceptedOf(records) ==
    SelectSeq(records, LAMBDA r : existing_df = <<>> \/ r.ad_date > MaxAdDate(existing_df))

\* what a finished run has requested and kept
RunRequestedEveryMonth ==
    pc = "done" =>
        /\ requested = ExpectedMonths(start_crawl_date, current_date)
        /\ all_new_records = AcceptedOf(fetched)
        /\ \A i \in 1..Len(all_new_records) :
               WritesFile(all_new_records) => HasDraw(csv, all_new_records[i].draw)

\* C7: a run requests every month from the start month through the current
\* month once, in ascending order, whichever months fail; it keeps the
\* records accepted from the other months; and the loop ends.
C7_EveryMonthOnce == []RunRequestedEveryMonth /\ (pc = "crawl" ~> pc = "done")

\* a finished run of three months whose second month failed and whose first
\* and third months each gave an accepted record, all of them saved
C7_Witness ==
    /\ pc = "done"
    /\ Len(requested) = 3
    /\ month_log[2].failed
    /\ month_log[1].accepted > 0 /\ month_log[3].accepted > 0
    /\ Len(all_new_records) = month_log[1].accepted + month_log[3].accepted
    /\ \A i \in 1..Len(all_new_records) : HasDraw(csv, all_new_records[i].draw)

\* C8: a run that finds no new record, its loaded table not empty, writes
\* nothing: the file is the file the run found, row for row.
C8_NoWriteWithoutNew ==
    pc = "done" /\ all_new_records = <<>> /\ existing_df # <<>> => csv = old_csv

\* a run on a loaded table of two rows of one date that fetched records and
\* found none of them new
C8_Witness ==
    /\ pc = "done"
    /\ all_new_records = <<>>
    /\ fetched # <<>>
    /\ Len(existing_df) = 2
    /\ existing_df[1].ad_date = existing_df[2].ad_date
    /\ csv = old_csv

\* C9: a fetched record dated on or before the latest date of the loaded
\* table is discarded, also when its draw is not in that table; a row enters
\* the table only if it is dated after that latest date; an empty loaded
\* table discards nothing.
C9_OnlyNewerEnter ==
    pc = "done" =>
        /\ existing_df = <<>> => all_new_records = fetched
        /\ \A i \in 1..Len(fetched) :
               existing_df # <<>> /\ fetched[i].ad_date <= MaxAdDate(existing_df)
                   => \A j \in 1..Len(all_new_records) : all_new_records[j] # fetched[i]
        /\ \A i \in 1..Len(csv) :
               \/ existing_df = <<>>
               \/ \E j \in 1..Len(existing_df) : existing_df[j] = csv[i]
               \/ csv[i].ad_date > MaxAdDate(existing_df)

\* a run that wrote the file and left out a fetched record of a draw the
\* table did not hold, dated on the table's latest date
C9_Witness ==
    /\ pc = "done"
    /\ WritesFile(all_new_records)
    /\ \E i \in 1..Len(fetched) :
           /\ fetched[i].ad_date = MaxAdDate(existing_df)
           /\ ~HasDraw(existing_df, fetched[i].draw)
           /\ ~HasDraw(csv, fetched[i].draw)

\* a row of the table with the draw, dates and numbers of the record
Holds(rows, record) == \E j \in 1..Len(rows) : rows[j] = record

\* the load of the existing file failed in the run: the file was there and
\* the run worked on an empty frame
LoadFailed == old_csv # <<>> /\ existing_df = <<>>

\* C15: the persisted table is append-only across runs: every record the
\* file held when a run started is in the file when the run is over, with
\* the same draw, date and numbers, whatever the run fetched and whether or
\* not the load of the existing file succeeded.
C15_AppendOnly ==
    pc = "done" => \A i \in 1..Len(old_csv) : Holds(csv, old_csv[i])

----------------------------------------------------------------------------
(* Properties of the normaliser, checked under SpecProcess. *)

\* the integers a numbers field holds
NumbersOf(text) == IF text = <<>> THEN <<>> ELSE ParseNumbers(text)

\* C5: every record the normaliser returns has a numbers field of exactly
\* five distinct integers, each in 1..39, whatever list of integers the raw
\* item holds.
C5_FiveDistinctInRange ==
    \A i \in 1..Len(processed.list) :
        LET numbers == NumbersOf(processed.list[i].numbers)
        IN  /\ Len(numbers) = 5
            /\ \A j, k \in 1..Len(numbers) : numbers[j] = numbers[k] => j = k
            /\ \A j \in 1..Len(numbers) : numbers[j] \in 1..39

\* an item with every field present, a date that parses and a list of at
\* least five integers
WellFormed(item) ==
    /\ item.lotteryDate.kind = "iso" /\ ValidDate(item.lotteryDate.val)
    /\ item.period.kind = "int"
    /\ item.drawNumberAppear.kind = "list" /\ Len(item.drawNumberAppear.val) >= 5

RECURSIVE RecordsOfWellFormed(_)
RecordsOfWellFormed(raw) ==
    IF raw = <<>> THEN <<>>
    ELSE (IF WellFormed(Head(raw)) THEN <<NormalizedRecord(Head(raw))>> ELSE <<>>)
             \o RecordsOfWellFormed(Tail(raw))

\* C6: the normaliser skips every malformed item and returns the records of
\* the well-formed items before and after it: no item ends the batch.
C6_MalformedSkipped ==
    processed # Pending =>
        /\ processed.raised = "none"
        /\ processed.list = RecordsOfWellFormed(raw_data)

----------------------------------------------------------------------------
(* Properties of the statistics queries, checked under SpecStats. *)

QueryIs(name) == result.query = name

\* the window the last query worked on
ResultWindow == TargetDf(df, result.num_draws)

Occurs(values, v) == \E i \in 1..Len(values) : values[i] = v

\* C10 as stated: the mappings of calculate_frequency and analyze_last_digits
\* hold every key of their domain (1..39, 0..9) for every table and window,
\* an empty table and an empty window included.
C10_AllDomainKeys ==
    /\ QueryIs("calculate_frequency") => DOMAIN result.value = 1..39
    /\ QueryIs("analyze_last_digits") => DOMAIN result.value = 0..9

\* C10 as amended: on a window of at least one draw the mappings hold every
\* key of their domain, with count 0 exactly for the values that do not
\* occur; on an empty table or an empty window both are the empty mapping.
C10_DomainKeysOrEmpty ==
    /\ QueryIs("calculate_frequency") =>
           IF ResultWindow = <<>> THEN result.value = EmptyMapping
           ELSE /\ DOMAIN result.value = 1..39
                /\ \A k \in 1..39 : result.value[k] = 0 <=> ~Occurs(Flatten(ResultWindow), k)
    /\ QueryIs("analyze_last_digits") =>
           IF ResultWindow = <<>> THEN result.value = EmptyMapping
           ELSE /\ DOMAIN result.value = 0..9
                /\ \A k \in 0..9 :
                       result.value[k] = 0 <=>
                           \A i \in 1..Len(Flatten(ResultWindow)) : Flatten(ResultWindow)[i] % 10 # k

\* a frequency query on a window of one draw out of two, in which a number
\* occurs and another does not
C10_Witness ==
    /\ QueryIs("calculate_frequency")
    /\ Len(df) = 2
    /\ result.num_draws.given /\ result.num_draws.n = 1
    /\ DOMAIN result.value = 1..39
    /\ \E k \in 1..39 : result.value[k] = 0
    /\ \E k \in 1..39 : result.value[k] > 0

\* the sum of the counts of a mapping
RECURSIVE TotalOver(_, _)
TotalOver(mapping, keys) ==
    IF keys = {} THEN 0
    ELSE LET k == CHOOSE x \in keys : TRUE
         IN  mapping[k] + TotalOver(mapping, keys \ {k})

MappingTotal(mapping) == TotalOver(mapping, DOMAIN mapping)

\* mapping.get(k, 0)
CountOf(mapping, k) == IF k \in DOMAIN mapping THEN mapping[k] ELSE 0

DrawsContaining(window, k) ==
    Cardinality({i \in 1..Len(window) : Occurs(window[i].numbers_list, k)})

FullTableQuery == QueryIs("calculate_frequency") /\ ~result.num_draws.given

\* C11: on the full table (no window) the frequency counts sum to 5 times
\* the number of draws, and the count of each number k of 1..39 is the
\* number of draws whose numbers contain k.
C11_FullTableCounts ==
    FullTableQuery =>
        /\ MappingTotal(result.value) = 5 * Len(df)
        /\ \A k \in 1..39 : CountOf(result.value, k) = DrawsContaining(df, k)

\* the last k rows of a frame, in its order; no rows for k <= 0
LastRows(frame, k) == [i \in 1..k |-> frame[Len(frame) - k + i]]

Min2(a, b) == IF a <= b THEN a ELSE b

\* the frame a windowed query is expected to work on
ExpectedWindow(num_draws, k) ==
    IF num_draws.given THEN LastRows(df, k) ELSE df

\* C12 as stated: get_latest_n_draws(n) returns the last min(n, size)
\* records of the table in ascending date order for every integer n, and a
\* query with num_draws works on exactly those records, on the whole table
\* when num_draws is absent.
C12_LastMinRecords ==
    LET k == Min2(result.num_draws.n, Len(df))
    IN  /\ QueryIs("get_latest_n_draws") =>
               /\ result.value = LastRows(df, k)
               /\ IsSortedByAdDate(result.value)
        /\ QueryIs("calculate_frequency") =>
               result.value = calculate_frequency(ExpectedWindow(result.num_draws, k),
                                                  [given |-> FALSE, n |-> 0])

\* the number of rows df.tail(n) keeps of a frame of the given size
TailSize(n, size) ==
    IF n >= 0 THEN Min2(n, size) ELSE Max2(size + n, 0)

\* C12 as amended: for n >= 0 get_latest_n_draws(n) returns the last
\* min(n, size) records, for n < 0 the records after the first -n (the last
\* max(size + n, 0)), in ascending date order; a query with num_draws works
\* on exactly those records and on the whole table when num_draws is absent.
C12_TailOfTable ==
    LET k == TailSize(result.num_draws.n, Len(df))
    IN  /\ QueryIs("get_latest_n_draws") =>
               /\ result.value = LastRows(df, k)
               /\ IsSortedByAdDate(result.value)
        /\ QueryIs("calculate_frequency") =>
               result.value = calculate_frequency(ExpectedWindow(result.num_draws, k),
                                                  [given |-> FALSE, n |-> 0])

\* the latest draw asked of a table of two draws of different dates
C12_Witness ==
    /\ QueryIs("get_latest_n_draws")
    /\ Len(df) = 2
    /\ df[1].ad_date < df[2].ad_date
    /\ result.num_draws.n = 1
    /\ result.value = <<df[2]>>

\* a row holds two numbers that differ by exactly 1
HasPairDifferingByOne(numbers_list) ==
    \E i, j \in 1..Len(numbers_list) : numbers_list[j] - numbers_list[i] = 1

DrawsWithPair(window) ==
    {i \in 1..Len(window) : HasPairDifferingByOne(window[i].numbers_list)}

DrawsWithBoth(window, a) ==
    {i \in 1..Len(window) :
        Occurs(window[i].numbers_list, a) /\ Occurs(window[i].numbers_list, a + 1)}

PatternKey(a) == Format02d(a) \o <<",">> \o Format02d(a + 1)

\* C13: analyze_consecutive_numbers counts a draw of the window once in
\* total_draws_with_consecutive exactly if it holds a pair of numbers that
\* differ by 1, and counts every such pair under its own pattern; so the
\* total is at most the window size, the pattern counts sum to at least the
\* total, and percentage_with_consecutive is 100 * total / window size.
C13_ConsecutiveTally ==
    QueryIs("analyze_consecutive_numbers") =>
        LET window == ResultWindow
            total == result.value.total_draws_with_consecutive
            patterns == result.value.consecutive_patterns
        IN  /\ total = Cardinality(DrawsWithPair(window))
            /\ DOMAIN patterns = {PatternKey(a) : a \in {b \in 0..40 : DrawsWithBoth(window, b) # {}}}
            /\ \A a \in 0..40 :
                   DrawsWithBoth(window, a) # {} =>
                       patterns[PatternKey(a)] = Cardinality(DrawsWithBoth(window, a))
            /\ total <= Len(window)
            /\ MappingTotal(patterns) >= total
            /\ window # <<>> =>
                   result.value.percentage_with_consecutive.num * Len(window)
                       = 100 * total * result.value.percentage_with_consecutive.den

\* a window of two draws, one with several pairs and one with none
C13_Witness ==
    /\ QueryIs("analyze_consecutive_numbers")
    /\ Len(ResultWindow) = 2
    /\ result.value.total_draws_with_consecutive = 1
    /\ MappingTotal(result.value.consecutive_patterns) > 1
    /\ result.value.percentage_with_consecutive = [num |-> 100, den |-> 2]

StatisticsQueries ==
    {"calculate_frequency", "calculate_sum_analysis", "calculate_odd_even_big_small_ratios",
     "analyze_consecutive_numbers", "analyze_last_digits", "get_latest_n_draws"}

\* C14: on an empty table or an empty window every statistics query returns
\* its neutral result: the empty mapping, no rows, empty sequences and
\* mappings with a total of 0, and for calculate_sum_analysis an empty sums
\* sequence with None for mean, median, standard deviation, min and max.
C14_EmptyWindowNeutral ==
    (result.query \in StatisticsQueries /\ ResultWindow = <<>>) =>
        /\ QueryIs("calculate_frequency") => result.value = EmptyMapping
        /\ QueryIs("analyze_last_digits") => result.value = EmptyMapping
        /\ QueryIs("get_latest_n_draws") => result.value = <<>>
        /\ QueryIs("calculate_sum_analysis") =>
               /\ result.value.sums = <<>>
               /\ \A key \in {"mean_sum", "median_sum", "std_dev_sum", "min_sum", "max_sum"} :
                      result.value[key] = None
        /\ QueryIs("calculate_odd_even_big_small_ratios") =>
               /\ result.value.odd_even_ratios = <<>>
               /\ result.value.big_small_ratios = <<>>
               /\ \A key \in DOMAIN result.value : result.value[key] = <<>>
        /\ QueryIs("analyze_consecutive_numbers") =>
               /\ result.value.consecutive_patterns = EmptyMapping
               /\ result.value.total_draws_with_consecutive = 0

\* a sum analysis on a window of no draws (num_draws = 0) of a table that
\* has draws
C14_Witness ==
    /\ QueryIs("calculate_sum_analysis")
    /\ df # <<>>
    /\ result.num_draws.given /\ result.num_draws.n = 0
    /\ result.value.sums = <<>>
    /\ result.value.mean_sum = None

\* a sum analysis on the empty table of an absent file
C14_WitnessEmptyTable ==
    /\ QueryIs("calculate_sum_analysis")
    /\ csv = <<>> /\ df = <<>>
    /\ result.value.max_sum = None

\* the keys AILayer._generate_analysis_prompt reads of the two results
RatioKeys ==
    {"odd_even_ratios", "big_small_ratios", "odd_even_distribution", "big_small_distribution"}

ConsecutiveKeys ==
    {"consecutive_patterns", "total_draws_with_consecutive", "percentage_with_consecutive"}

\* C16: the result of a statistics query has the same keys on an empty and
\* on a non-empty window: calculate_odd_even_big_small_ratios always has
\* odd_even_ratios, big_small_ratios, odd_even_distribution and
\* big_small_distribution, analyze_consecutive_numbers always has
\* consecutive_patterns, total_draws_with_consecutive and
\* percentage_with_consecutive.
C16_SameKeys ==
    /\ QueryIs("calculate_odd_even_big_small_ratios") => DOMAIN result.value = RatioKeys
    /\ QueryIs("analyze_consecutive_numbers") => DOMAIN result.value = ConsecutiveKeys

====
